---- MODULE Spec2Model ----
(***************************************************************************)
(* The channel export command of contentcuration (exportchannel.py):       *)
(* Command.handle and the pipeline steps it calls, as a state machine over *)
(* the editorial store (channel, nodes, exercise files, secret tokens),    *)
(* the temporary target database and the stored database artifact.         *)
(***************************************************************************)
EXTENDS Integers, Sequences, FiniteSets, TLC

\* ---------------------------------------------------------------- bounds
\* Number of nodes of the channel's main tree (node 1 is the root).
NumNodes == 3
\* Number of invocations of the command in one behaviour.
MaxRuns == 2
\* Size of the space proquint.generate() draws from.
NumTokens == 3

\* ------------------------------------------------------ program constants
\* exportchannel.py:559
max_retries == 1000000
\* The value of channel.id, used as the second token (exportchannel.py:567).
\* Proquints are 1..NumTokens, so it is none of them.
ChannelId == 0

Nodes == 1..NumNodes
Root == 1
NoNode == 0
Proquints == 1..NumTokens
TOPIC == "topic"
EXERCISE == "exercise"
VIDEO == "video"
Kinds == {TOPIC, EXERCISE, VIDEO}
\* Python's None, where a language is expected.
None == "None"
Languages == {"en", "es"}

VARIABLES
    parent,      \* ContentNode.parent of each node of the main tree (NoNode for the root)
    kind,        \* ContentNode.kind
    badItems,    \* exercise nodes holding an assessment item of unrecognized type
    language,    \* ContentNode.language (None when the node has none)
    thumbs,      \* the node's thumbnail: "none", a "file", or a file and an "encoded" copy
    files,       \* the node's uploaded files: indices into Uploads
    prereqs,     \* PrerequisiteContentRelationship rows: <<prerequisite, target_node>>
    changed,     \* ContentNode.changed
    published,   \* ContentNode.published
    bundle,      \* the node's EXERCISE-preset File: 0 = none, r = created by run r
    channel,     \* the Channel row: version, last_published, icon_encoding, aggregates
    tokenTable,  \* the SecretToken table, in creation order
    chanTokens,  \* channel.secret_tokens: indices into tokenTable
    artifact,    \* DB_ROOT/<channel_id>.sqlite3: << >> when absent, else <<snapshot>>
    tempdb,      \* whether this invocation created its temporary database file
    tChannel,    \* target ChannelMetadata rows (their version field)
    tNodes,      \* target ContentNode rows, in creation order
    tPrereqs,    \* target has_prerequisite links
    tFiles,      \* target File rows
    node_queue,  \* the deque of map_content_nodes
    token,       \* local variable token of add_tokens_to_channel
    index,       \* local variable index of add_tokens_to_channel
    pc,          \* position of Command.handle
    outcome,     \* how the last invocation ended
    failure,     \* << >>, or <<step, error>> of the exception that ended it
    clock,       \* number of invocations begun; the value of datetime.now()
    done,        \* the calls of Command.handle that returned in this invocation
    pre,         \* options and editorial store as they were when the invocation began
    race,        \* two channels in add_tokens_to_channel on one SecretToken table
    mastery,     \* one call of process_assessment_metadata: its inputs and its result
    archive,     \* one call of create_perseus_zip: the questions, the disk and zf
    item         \* one call of write_assessment_item: the answers and their rendering

\* The variables of one invocation of the command on one channel.
mainVars == <<parent, kind, badItems, language, thumbs, files, prereqs, changed,
              published, bundle, channel, tokenTable, chanTokens, artifact,
              tempdb, tChannel, tNodes, tPrereqs, tFiles, node_queue, token,
              index, pc, outcome, failure, clock, done, pre>>

\* The variables of the models of single functions.
unitVars == <<race, mastery, archive, item>>

vars == <<mainVars, unitVars>>

treeVars == <<parent, kind, badItems, language, thumbs, files, prereqs>>
targetVars == <<tChannel, tNodes, tPrereqs, tFiles>>
tokenLocals == <<token, index>>

\* ------------------------------------------------------------ the tree
RECURSIVE Ancestors(_)
\* MPTT get_ancestors(): the chain of parents up to the root.
Ancestors(n) ==
    IF parent[n] = NoNode THEN {} ELSE {parent[n]} \cup Ancestors(parent[n])

\* MPTT get_descendants(include_self=...).
get_descendants(n, include_self) ==
    {d \in Nodes : n \in Ancestors(d)} \cup (IF include_self THEN {n} ELSE {})

\* MPTT get_family(): ancestors, the node itself and its descendants.
get_family(n) == Ancestors(n) \cup get_descendants(n, TRUE)

RECURSIVE ChildrenFrom(_, _)
ChildrenFrom(n, i) ==
    IF i > NumNodes THEN << >>
    ELSE (IF parent[i] = n THEN <<i>> ELSE << >>) \o ChildrenFrom(n, i + 1)

\* node.children.all(), in sibling order.
Children(n) == ChildrenFrom(n, 1)

\* Mutant of HasNonTopic: include_self is left out.
HasNonTopic_without_self(n) ==
    \E d \in get_descendants(n, FALSE) : kind[d] # TOPIC

\* node.get_descendants(include_self=True).exclude(kind_id=TOPIC).exists()
HasNonTopic(n) == \E d \in get_descendants(n, TRUE) : kind[d] # TOPIC

TargetIds(rows) == {rows[i].id : i \in 1..Len(rows)}

\* ------------------------------------------------------ the editorial store
Store ==
    [channel |-> channel, changed |-> changed, published |-> published,
     bundle |-> bundle, tokenTable |-> tokenTable, chanTokens |-> chanTokens,
     artifact |-> artifact]

NoAggregates == {}

\* channel.thumbnail: the name of a stored image file.
Thumbnails == {"thumb.png"}

\* The prerequisite relationships tried: none, or one between the first and
\* the last node below the root, in either direction.
PrereqChoices == {{}, {<<Root + 1, NumNodes>>}, {<<NumNodes, Root + 1>>}}

\* Trees the editor can build: every node but the root hangs under an earlier
\* node, and only topics have children.
TreeOk(p, k) ==
    /\ p[Root] = NoNode
    /\ k[Root] = TOPIC
    /\ \A n \in Nodes \ {Root} : p[n] \in 1..(n - 1) /\ k[p[n]] = TOPIC

\* The store before the first export, but for the fields of the nodes that
\* only some specifications vary.
BaseInit ==
    /\ parent \in [Nodes -> 0..NumNodes]
    /\ kind \in [Nodes -> Kinds]
    /\ TreeOk(parent, kind)
    /\ badItems \in SUBSET {n \in Nodes : kind[n] = EXERCISE}
    /\ Cardinality(badItems) <= 1
    /\ prereqs \in PrereqChoices
    /\ Cardinality(prereqs) + Cardinality(badItems) <= 1
    /\ changed = [n \in Nodes |-> TRUE]
    /\ published = [n \in Nodes |-> FALSE]
    /\ bundle = [n \in Nodes |-> 0]
    /\ \E th \in Thumbnails :
          channel = [version |-> 0, last_published |-> 0, thumbnail |-> th,
                     icon_encoding |-> "null", total_resource_count |-> 0,
                     published_kind_count |-> NoAggregates,
                     published_size |-> 0, included_languages |-> {}]
    /\ tokenTable = <<[token |-> 1, is_primary |-> TRUE],
                      [token |-> 2, is_primary |-> TRUE]>>
    /\ chanTokens = {}
    /\ artifact = << >>
    /\ tempdb = FALSE
    /\ tChannel = << >>
    /\ tNodes = << >>
    /\ tPrereqs = {}
    /\ tFiles = << >>
    /\ node_queue = << >>
    /\ token = 0
    /\ index = 0
    /\ pc = "idle"
    /\ outcome = "none"
    /\ failure = << >>
    /\ clock = 0
    /\ done = {}
    /\ pre = [force |-> FALSE, force_exercises |-> FALSE, store |-> Store]

\* The files uploaded to nodes, by preset, checksum and size.
Uploads ==
    <<[preset |-> "high_res_video", checksum |-> "c1", file_size |-> 2],
      [preset |-> "document", checksum |-> "c2", file_size |-> 3],
      [preset |-> "exercise_image", checksum |-> "c4", file_size |-> 5],
      [preset |-> "exercise_graphie", checksum |-> "c5", file_size |-> 7]>>

\* No node has an uploaded file.
NoFiles == [n \in Nodes |-> {}]

\* The uploaded files tried for one node.
UploadChoices == {{}, {1}, {1, 3}, {2, 4}}

\* The models of single functions at rest.
NoRace == [table |-> << >>, linked |-> << >>, pc |-> << >>, token |-> << >>]
NoMastery == [pc |-> "idle"]
NoArchive == [pc |-> "idle"]
NoItem == [pc |-> "idle"]
UnitIdle ==
    /\ race = NoRace
    /\ mastery = NoMastery
    /\ archive = NoArchive
    /\ item = NoItem

\* A channel whose nodes have no language of their own.
Init ==
    /\ language = [n \in Nodes |-> None]
    /\ thumbs = [n \in Nodes |-> "none"]
    /\ files = NoFiles
    /\ BaseInit
    /\ UnitIdle

\* One channel of topics only, for the models of single functions.
MainIdle ==
    /\ language = [n \in Nodes |-> None]
    /\ thumbs = [n \in Nodes |-> "none"]
    /\ files = NoFiles
    /\ BaseInit
    /\ parent = [n \in Nodes |-> IF n = Root THEN NoNode ELSE Root]
    /\ kind = [n \in Nodes |-> TOPIC]
    /\ prereqs = {}

\* A channel without prerequisite relationships whose items all have
\* recognized types: item types change by later edits.
ItemInit ==
    /\ Init
    /\ prereqs = {}
    /\ badItems = {}

\* The languages tried for the last node when languages are edited.
LanguageChoices ==
    {[n \in Nodes |-> IF n = NumNodes THEN l ELSE None] : l \in {None, "en"}}

\* The thumbnails tried for the last node.
ThumbnailChoices ==
    {[n \in Nodes |-> IF n = NumNodes THEN t ELSE "none"] :
        t \in {"none", "file", "encoded"}}

\* Such a channel whose last node may have a language and a thumbnail.
EditInit ==
    /\ language \in LanguageChoices
    /\ thumbs \in ThumbnailChoices
    /\ files = NoFiles
    /\ BaseInit
    /\ prereqs = {}
    /\ badItems = {}
    /\ UnitIdle

\* A root that directly holds every other node: resources and, as the last
\* node, an exercise or an empty topic, each with uploaded files.
FileInit ==
    /\ language = [n \in Nodes |-> None]
    /\ thumbs = [n \in Nodes |-> "none"]
    /\ files \in [Nodes -> UploadChoices]
    /\ files[Root] = {}
    /\ BaseInit
    /\ parent = [n \in Nodes |-> IF n = Root THEN NoNode ELSE Root]
    /\ \A n \in Nodes \ {Root, NumNodes} : kind[n] = VIDEO
    /\ kind[NumNodes] \in {EXERCISE, TOPIC}
    /\ prereqs = {}
    /\ badItems = {}
    /\ UnitIdle

\* ------------------------------------------------------- pipeline steps
\* Mutant of Pipeline: the version is incremented before the channel
\* metadata is generated.
Pipeline_increment_before_metadata ==
    <<"prepare_export_database", "increment_channel_version",
      "map_channel_to_kolibri_channel", "map_content_nodes", "map_prerequisites",
      "save_export_database", "mark_all_nodes_as_changed",
      "add_tokens_to_channel", "fill_published_fields", "record_publish_stats">>

\* Mutant of Pipeline: the database is copied before the tree is transformed.
Pipeline_save_before_transform ==
    <<"prepare_export_database", "map_channel_to_kolibri_channel",
      "save_export_database", "map_content_nodes", "map_prerequisites",
      "increment_channel_version", "mark_all_nodes_as_changed",
      "add_tokens_to_channel", "fill_published_fields", "record_publish_stats">>

\* The calls of Command.handle after mkstemp, in the order it makes them.
Pipeline ==
    <<"prepare_export_database", "map_channel_to_kolibri_channel",
      "map_content_nodes", "map_prerequisites", "save_export_database",
      "increment_channel_version", "mark_all_nodes_as_changed",
      "add_tokens_to_channel", "fill_published_fields", "record_publish_stats">>

\* The call Command.handle makes when `step` has returned.
StepAfter(step) ==
    LET i == CHOOSE k \in 1..Len(Pipeline) : Pipeline[k] = step
    IN IF i < Len(Pipeline) THEN Pipeline[i + 1] ELSE "idle"

\* `step` returns: control passes to the next call.
Returns(step) ==
    /\ pc' = StepAfter(step)
    /\ done' = done \cup {step}

\* Mutant of AllUnchanged: the filter tests changed=False.
AllUnchanged_filter_unchanged ==
    Cardinality({n \in get_family(Root) : ~changed[n]}) = 0

\* raise_if_nodes_are_all_unchanged: no node of the family has changed=True.
AllUnchanged == Cardinality({n \in get_family(Root) : changed[n]}) = 0

\* An exception leaves Command.handle: only EarlyExit is caught there.
Raise(step, error) ==
    /\ pc' = "idle"
    /\ outcome' = "Failed"
    /\ failure' = <<step, error>>
    /\ done' = done

\* Command.handle up to mkstemp: read the options, fetch the channel, exit
\* early when nothing changed and force is not set, else create the temporary
\* database file. Every invocation has its own temporary database and its own
\* locals, so what the previous invocation left in them is not carried over.
handle_begin(force, force_exercises) ==
    /\ pc = "idle"
    /\ clock < MaxRuns
    /\ clock' = clock + 1
    /\ pre' = [force |-> force, force_exercises |-> force_exercises, store |-> Store]
    /\ failure' = << >>
    /\ IF ~force /\ AllUnchanged
       THEN /\ outcome' = "EarlyExit"
            /\ pc' = "idle"
            /\ tempdb' = FALSE
       ELSE /\ outcome' = "running"
            /\ pc' = Pipeline[1]
            /\ tempdb' = TRUE
    /\ done' = {}
    /\ tChannel' = << >>
    /\ tNodes' = << >>
    /\ tPrereqs' = {}
    /\ tFiles' = << >>
    /\ node_queue' = << >>
    /\ token' = 0
    /\ index' = 0
    /\ UNCHANGED <<unitVars, treeVars, changed, published, bundle, channel, tokenTable,
                   chanTokens, artifact>>

\* prepare_export_database and map_content_tags: flush and migrate the
\* temporary database (tags are not part of the modelled target state).
prepare_export_database ==
    /\ pc = "prepare_export_database"
    /\ tChannel' = << >>
    /\ tNodes' = << >>
    /\ tPrereqs' = {}
    /\ tFiles' = << >>
    /\ Returns("prepare_export_database")
    /\ UNCHANGED <<unitVars, treeVars, changed, published, bundle, channel, tokenTable,
                   chanTokens, artifact, tempdb, node_queue, tokenLocals,
                   outcome, failure, clock, pre>>

\* convert_channel_thumbnail, for a channel without thumbnail_encoding.
convert_channel_thumbnail(ch) ==
    IF ch.thumbnail = "" THEN "" ELSE "data:image/png;base64"

\* map_channel_to_kolibri_channel, first half: store the icon on the channel.
map_channel_save_icon ==
    /\ pc = "map_channel_to_kolibri_channel"
    /\ channel' = [channel EXCEPT !.icon_encoding = convert_channel_thumbnail(channel)]
    /\ pc' = "ChannelMetadata_create"
    /\ done' = done
    /\ UNCHANGED <<unitVars, treeVars, changed, published, bundle, tokenTable, chanTokens,
                   artifact, tempdb, targetVars, node_queue, tokenLocals,
                   outcome, failure, clock, pre>>

\* map_channel_to_kolibri_channel, second half: the target ChannelMetadata row.
map_channel_create ==
    /\ pc = "ChannelMetadata_create"
    /\ tChannel' = Append(tChannel, [id |-> ChannelId, version |-> channel.version,
                                     thumbnail |-> channel.icon_encoding,
                                     root_pk |-> Root])
    /\ Returns("map_channel_to_kolibri_channel")
    /\ UNCHANGED <<unitVars, treeVars, changed, published, bundle, channel, tokenTable,
                   chanTokens, artifact, tempdb, tNodes, tPrereqs, tFiles, node_queue,
                   tokenLocals, outcome, failure, clock, pre>>

\* ------------------------------------------------------ map_content_nodes
\* The row create_bare_contentnode writes for a source node.
BareRow(n, p) ==
    [id |-> n, kind |-> kind[n], available |-> HasNonTopic(n), parent |-> p]

\* ContentNode.objects.update_or_create(pk=ccnode.node_id, ...)
update_or_create(rows, row) ==
    IF row.id \in TargetIds(rows)
    THEN [i \in 1..Len(rows) |-> IF rows[i].id = row.id THEN row ELSE rows[i]]
    ELSE Append(rows, row)

\* kolibrimodels.ContentNode.objects.get(pk=ccnode.parent.node_id) finds a row.
ParentFound(rows, n) == parent[n] = NoNode \/ parent[n] \in TargetIds(rows)

\* create_bare_contentnode: the row is created without its parent, then the
\* parent is looked up and the row saved again.
create_bare_contentnode(rows, n) ==
    IF ParentFound(rows, n)
    THEN update_or_create(rows, BareRow(n, parent[n]))
    ELSE update_or_create(rows, BareRow(n, NoNode))

\* Mutant of NeedsRebuild: node.changed is not part of the condition.
NeedsRebuild_ignores_changed(n) == pre.force_exercises \/ bundle[n] = 0

\* The condition under which map_content_nodes rebuilds the exercise bundle.
NeedsRebuild(n) == pre.force_exercises \/ changed[n] \/ bundle[n] = 0

\* The primary key of a File: of the node's uploaded file with that preset
\* (made = 0), or of the file the export created for it in invocation `made`.
FilePk(n, preset, made) == <<n, preset, made>>

\* create_content_thumbnail: create_file_from_contents makes a new File out
\* of the decoded thumbnail_encoding in every invocation.
create_content_thumbnail(n) == FilePk(n, "thumbnail", clock)

RECURSIVE UploadedFiles(_, _)
\* The uploaded files of node n from the i-th of Uploads on.
UploadedFiles(n, i) ==
    IF i > Len(Uploads) THEN << >>
    ELSE (IF i \in files[n]
          THEN <<[pk |-> FilePk(n, Uploads[i].preset, 0),
                  preset |-> Uploads[i].preset, checksum |-> Uploads[i].checksum,
                  file_size |-> Uploads[i].file_size, thumbnail |-> FALSE]>>
          ELSE << >>)
         \o UploadedFiles(n, i + 1)

\* ccnode.files of a node whose EXERCISE-preset file is b (0 = none): the
\* exercise bundle, the thumbnail file, the uploaded files. Each bundle and
\* each thumbnail has content of its own.
NodeFiles(n, b) ==
    (IF b = 0 THEN << >>
     ELSE <<[pk |-> FilePk(n, "exercise", b), preset |-> "exercise",
             checksum |-> "zip" \o ToString(n), file_size |-> 4,
             thumbnail |-> FALSE]>>)
    \o
    (IF thumbs[n] = "none" THEN << >>
     ELSE <<[pk |-> FilePk(n, "thumbnail", 0), preset |-> "thumbnail",
             checksum |-> "png" \o ToString(n), file_size |-> 1,
             thumbnail |-> TRUE]>>)
    \o UploadedFiles(n, 1)

\* Mutant of ExcludedPresets: only EXERCISE_IMAGE is excluded.
ExcludedPresets_image_only == {"exercise_image"}

\* The presets line 218 excludes: EXERCISE_IMAGE and EXERCISE_GRAPHIE.
ExcludedPresets == {"exercise_image", "exercise_graphie"}

\* create_associated_file_objects for a node whose EXERCISE-preset file is b
\* (0 = none): one target File per file of the node, with the pk of the
\* source file; the thumbnail of a node with thumbnail_encoding is replaced
\* by the file create_content_thumbnail returns.
create_associated_file_objects(n, b) ==
    LET ccfiles == SelectSeq(NodeFiles(n, b),
                             LAMBDA f : f.preset \notin ExcludedPresets)
    IN [i \in 1..Len(ccfiles) |->
           [pk |-> IF ccfiles[i].thumbnail /\ thumbs[n] = "encoded"
                   THEN create_content_thumbnail(n)
                   ELSE ccfiles[i].pk,
            checksum |-> ccfiles[i].checksum,
            file_size |-> ccfiles[i].file_size,
            contentnode |-> n, preset |-> ccfiles[i].preset,
            thumbnail |-> ccfiles[i].thumbnail]]

\* Mutant of UnrecognizedType: the else branch of write_assessment_item is
\* missing and every item gets a template.
UnrecognizedType_never(n) == FALSE

\* write_assessment_item reaches `raise TypeError` for an item of node n.
UnrecognizedType(n) == n \in badItems

\* The nodes the loop enqueues after visiting node n.
Enqueue(queue, n) == Tail(queue) \o Children(n)

RECURSIVE Descending(_)
Descending(i) == IF i = 0 THEN << >> ELSE <<i>> \o Descending(i - 1)

\* Mutant of map_content_nodes_begin: the queue starts with every node of the
\* tree, newest first, instead of the root alone.
map_content_nodes_begin_unordered ==
    /\ pc = "map_content_nodes"
    /\ node_queue' = Descending(NumNodes)
    /\ pc' = "map_content_nodes_loop"
    /\ done' = done
    /\ UNCHANGED <<unitVars, treeVars, changed, published, bundle, channel, tokenTable,
                   chanTokens, artifact, tempdb, targetVars, tokenLocals,
                   outcome, failure, clock, pre>>

\* map_content_nodes: node_queue.append(root_node), entering transaction.atomic.
map_content_nodes_begin ==
    /\ pc = "map_content_nodes"
    /\ node_queue' = <<Root>>
    /\ pc' = "map_content_nodes_loop"
    /\ done' = done
    /\ UNCHANGED <<unitVars, treeVars, changed, published, bundle, channel, tokenTable,
                   chanTokens, artifact, tempdb, targetVars, tokenLocals,
                   outcome, failure, clock, pre>>

\* One iteration of the loop of map_content_nodes on the node popped from the
\* left of the queue. An exception rolls the atomic block back: the exercise
\* files created in it are gone, the temporary database keeps what was written.
map_content_nodes_visit ==
    /\ pc = "map_content_nodes_loop"
    /\ node_queue # << >>
    /\ LET node == Head(node_queue) IN
       IF ~HasNonTopic(node)
       THEN /\ node_queue' = Tail(node_queue)
            /\ UNCHANGED <<tNodes, tFiles, bundle, pc, outcome, failure, done>>
       ELSE /\ node_queue' = Enqueue(node_queue, node)
            /\ tNodes' = create_bare_contentnode(tNodes, node)
            /\ IF ~ParentFound(tNodes, node)
               THEN /\ Raise("map_content_nodes", "DoesNotExist")
                    /\ bundle' = pre.store.bundle
                    /\ UNCHANGED tFiles
               ELSE IF kind[node] = EXERCISE /\ NeedsRebuild(node)
               THEN IF UnrecognizedType(node)
                    THEN /\ Raise("map_content_nodes", "TypeError")
                         /\ bundle' = pre.store.bundle
                         /\ UNCHANGED tFiles
                    ELSE /\ bundle' = [bundle EXCEPT ![node] = clock]
                         /\ tFiles' = tFiles \o create_associated_file_objects(node, clock)
                         /\ UNCHANGED <<pc, outcome, failure, done>>
               ELSE /\ tFiles' = tFiles \o create_associated_file_objects(node, bundle[node])
                    /\ UNCHANGED <<bundle, pc, outcome, failure, done>>
    /\ UNCHANGED <<unitVars, treeVars, changed, published, channel, tokenTable, chanTokens,
                   artifact, tempdb, tChannel, tPrereqs, tokenLocals, clock, pre>>

\* The queue is empty: the loop ends and the atomic block commits.
map_content_nodes_end ==
    /\ pc = "map_content_nodes_loop"
    /\ node_queue = << >>
    /\ Returns("map_content_nodes")
    /\ UNCHANGED <<unitVars, treeVars, changed, published, bundle, channel, tokenTable,
                   chanTokens, artifact, tempdb, targetVars, node_queue,
                   tokenLocals, outcome, failure, clock, pre>>

\* map_prerequisites: every relationship whose prerequisite is in the tree;
\* ContentNode.objects.get raises when the target node has no target row.
map_prerequisites ==
    /\ pc = "map_prerequisites"
    /\ IF \E r \in prereqs : r[2] \notin TargetIds(tNodes)
       THEN /\ Raise("map_prerequisites", "DoesNotExist")
            /\ UNCHANGED tPrereqs
       ELSE /\ tPrereqs' = prereqs
            /\ Returns("map_prerequisites")
            /\ UNCHANGED <<outcome, failure>>
    /\ UNCHANGED <<unitVars, treeVars, changed, published, bundle, channel, tokenTable,
                   chanTokens, artifact, tempdb, tChannel, tNodes, tFiles,
                   node_queue,
                   tokenLocals, clock, pre>>

\* save_export_database: copy the temporary database to DB_ROOT/<id>.sqlite3.
save_export_database ==
    /\ pc = "save_export_database"
    /\ artifact' = <<[channel |-> tChannel, nodes |-> tNodes, prereqs |-> tPrereqs,
                      files |-> tFiles, written |-> clock]>>
    /\ Returns("save_export_database")
    /\ UNCHANGED <<unitVars, treeVars, changed, published, bundle, channel, tokenTable,
                   chanTokens, tempdb, targetVars, node_queue, tokenLocals,
                   outcome, failure, clock, pre>>

\* increment_channel_version
increment_channel_version ==
    /\ pc = "increment_channel_version"
    /\ channel' = [channel EXCEPT !.version = channel.version + 1,
                                  !.last_published = clock]
    /\ Returns("increment_channel_version")
    /\ UNCHANGED <<unitVars, treeVars, changed, published, bundle, tokenTable, chanTokens,
                   artifact, tempdb, targetVars, node_queue, tokenLocals,
                   outcome, failure, clock, pre>>

\* Mutant of MarkedNodes: only the root is marked.
MarkedNodes_root_only == {Root}

\* Mutant of MarkedNodes: get_descendants() in place of get_family().
MarkedNodes_descendants_only == get_descendants(Root, FALSE)

\* The nodes mark_all_nodes_as_changed updates.
MarkedNodes == get_family(Root)

\* mark_all_nodes_as_changed: update(changed=False, published=True).
mark_all_nodes_as_changed ==
    /\ pc = "mark_all_nodes_as_changed"
    /\ changed' = [n \in Nodes |-> IF n \in MarkedNodes THEN FALSE ELSE changed[n]]
    /\ published' = [n \in Nodes |-> IF n \in MarkedNodes THEN TRUE ELSE published[n]]
    /\ Returns("mark_all_nodes_as_changed")
    /\ UNCHANGED <<unitVars, treeVars, bundle, channel, tokenTable, chanTokens, artifact,
                   tempdb, targetVars, node_queue, tokenLocals, outcome, failure,
                   clock, pre>>

\* --------------------------------------------------- add_tokens_to_channel
\* Mutant of HasPrimaryToken: the filter runs on every token, not on the
\* channel's.
HasPrimaryToken_any_channel(table, linked) ==
    \E i \in 1..Len(table) : table[i].is_primary

\* channel.secret_tokens.filter(is_primary=True).exists()
HasPrimaryToken(table, linked) == \E i \in linked : table[i].is_primary

\* ccmodels.SecretToken.objects.filter(token=token).exists()
TokenExists(table, t) == \E i \in 1..Len(table) : table[i].token = t

\* The guard of add_tokens_to_channel and the first proquint.generate().
add_tokens_check ==
    /\ pc = "add_tokens_to_channel"
    /\ IF ~HasPrimaryToken(tokenTable, chanTokens)
       THEN /\ \E t \in Proquints : token' = t
            /\ index' = 0
            /\ pc' = "add_tokens_while"
            /\ done' = done
       ELSE /\ Returns("add_tokens_to_channel")
            /\ UNCHANGED tokenLocals
    /\ UNCHANGED <<unitVars, treeVars, changed, published, bundle, channel, tokenTable,
                   chanTokens, artifact, tempdb, targetVars, node_queue,
                   outcome, failure, clock, pre>>

\* Mutant of Collides: the candidate is compared with the channel's tokens only.
Collides_own_tokens(table, t) == \E i \in chanTokens : table[i].token = t

\* The condition of the while loop: the candidate is already a token.
Collides(table, t) == TokenExists(table, t)

\* One iteration of the while loop: regenerate, then test index against
\* max_retries. Nothing in the loop assigns index.
add_tokens_retry ==
    /\ pc = "add_tokens_while"
    /\ Collides(tokenTable, token)
    /\ \E t \in Proquints : token' = t
    /\ index' = index
    /\ IF index > max_retries
       THEN Raise("add_tokens_to_channel", "ValueError")
       ELSE UNCHANGED <<pc, outcome, failure, done>>
    /\ UNCHANGED <<unitVars, treeVars, changed, published, bundle, channel, tokenTable,
                   chanTokens, artifact, tempdb, targetVars, node_queue, clock, pre>>

\* The loop is left: create the primary token and the channel-id token and
\* add both to channel.secret_tokens.
add_tokens_create ==
    /\ pc = "add_tokens_while"
    /\ ~Collides(tokenTable, token)
    /\ tokenTable' = tokenTable \o <<[token |-> token, is_primary |-> TRUE],
                                     [token |-> ChannelId, is_primary |-> FALSE]>>
    /\ chanTokens' = chanTokens \cup {Len(tokenTable) + 1, Len(tokenTable) + 2}
    /\ Returns("add_tokens_to_channel")
    /\ UNCHANGED <<unitVars, treeVars, changed, published, bundle, channel, artifact,
                   tempdb, targetVars, node_queue, tokenLocals, outcome, failure,
                   clock, pre>>

\* ----------------------------------------- process_assessment_metadata
\* Most assessment items of the exercise in the call.
MaxItems == 12

\* le_utils.constants.exercises: the mastery models the function names.
M_OF_N == "m_of_n"
DO_ALL == "do_all"
NUM_CORRECT_IN_A_ROW_2 == "num_correct_in_a_row_2"
NUM_CORRECT_IN_A_ROW_3 == "num_correct_in_a_row_3"
NUM_CORRECT_IN_A_ROW_5 == "num_correct_in_a_row_5"
NUM_CORRECT_IN_A_ROW_10 == "num_correct_in_a_row_10"

\* Values of extra_fields['mastery_model']: absent, the six models above,
\* and a string that is none of them.
MasteryInputs ==
    {None, M_OF_N, DO_ALL, NUM_CORRECT_IN_A_ROW_2, NUM_CORRECT_IN_A_ROW_3,
     NUM_CORRECT_IN_A_ROW_5, NUM_CORRECT_IN_A_ROW_10, "skill_check"}

\* Values of extra_fields['n'] and ['m']. A number that may be None is a
\* set: {} is None, {v} is the number v.
OverrideInputs == {{}, {0}, {3}, {7}}

\* Python's `a or b` on such values: None and 0 are false.
PyOr(a, b) == IF a = {} \/ a = {0} THEN b ELSE a

\* Python's `a or b` on strings that may be None.
PyOrStr(a, b) == IF a = None \/ a = "" THEN b ELSE a

Min(a, b) == IF a <= b THEN a ELSE b

\* Values of extra_fields['randomize']: absent, true, false.
RandomizeInputs == {None, "True", "False"}

\* Python's `a or b` on booleans that may be None.
PyOrBool(a, b) == IF a = None \/ a = "False" THEN b ELSE a

\* Mutant of Randomize: exercise_data.get('randomize', True).
Randomize_get_default(extra_fields) ==
    IF extra_fields.randomize = None THEN "True" ELSE extra_fields.randomize

\* Line 269: exercise_data.get('randomize') or True
Randomize(extra_fields) == PyOrBool(extra_fields.randomize, "True")

\* Mutant of MOfNDefault: the trailing `or 1` is missing.
MOfNDefault_without_or_1(count) == {Min(5, count)}

\* min(5, assessment_items.count()) or 1
MOfNDefault(count) == PyOr({Min(5, count)}, {1})

\* The dict mastery_model after lines 272-285. No branch is taken for a type
\* that is none of the six: 'n' and 'm' stay unset and .get returns None.
MasteryModel(extra_fields, count) ==
    LET type == PyOrStr(extra_fields.mastery_model, M_OF_N) IN
    CASE type = M_OF_N ->
             [type |-> type, n |-> PyOr(extra_fields.n, MOfNDefault(count)),
              m |-> PyOr(extra_fields.m, MOfNDefault(count))]
      [] type = DO_ALL ->
             [type |-> type, n |-> PyOr({count}, {1}), m |-> PyOr({count}, {1})]
      [] type = NUM_CORRECT_IN_A_ROW_2 -> [type |-> type, n |-> {2}, m |-> {2}]
      [] type = NUM_CORRECT_IN_A_ROW_3 -> [type |-> type, n |-> {3}, m |-> {3}]
      [] type = NUM_CORRECT_IN_A_ROW_5 -> [type |-> type, n |-> {5}, m |-> {5}]
      [] type = NUM_CORRECT_IN_A_ROW_10 -> [type |-> type, n |-> {10}, m |-> {10}]
      [] OTHER -> [type |-> type, n |-> {}, m |-> {}]

\* exercise_data.update(...), lines 287-295: the keys about mastery.
ExerciseData(extra_fields, count) ==
    LET mastery_model == MasteryModel(extra_fields, count) IN
    [mastery_model |-> M_OF_N, legacy_mastery_model |-> mastery_model.type,
     randomize |-> Randomize(extra_fields),
     n |-> mastery_model.n, m |-> mastery_model.m]

\* AssessmentMetaData.objects.create(...), lines 297-305.
AssessmentMetaData(extra_fields, count) ==
    [number_of_assessments |-> count,
     mastery_model |-> MasteryModel(extra_fields, count),
     randomize |-> Randomize(extra_fields)]

\* An exercise with `count` assessment items and some extra_fields.
MasteryInit ==
    /\ MainIdle
    /\ race = NoRace
    /\ archive = NoArchive
    /\ item = NoItem
    /\ \E count \in 0..MaxItems, type \in MasteryInputs,
          n \in OverrideInputs, m \in OverrideInputs,
          randomize \in RandomizeInputs :
          mastery = [pc |-> "process_assessment_metadata", count |-> count,
                     extra_fields |-> [mastery_model |-> type, n |-> n, m |-> m,
                                       randomize |-> randomize]]

\* process_assessment_metadata creates the AssessmentMetaData row and
\* returns exercise_data.
process_assessment_metadata ==
    /\ mastery.pc = "process_assessment_metadata"
    /\ mastery' = [pc |-> "returned", count |-> mastery.count,
                   extra_fields |-> mastery.extra_fields,
                   exercise_data |-> ExerciseData(mastery.extra_fields, mastery.count),
                   assessment_metadata |->
                       AssessmentMetaData(mastery.extra_fields, mastery.count)]
    /\ UNCHANGED <<mainVars, race, archive, item>>

MasteryNext == process_assessment_metadata

MasterySpec == MasteryInit /\ [][MasteryNext]_vars

\* ---------------------------------------------------- create_perseus_zip
\* Most assessment items of the exercise whose archive is written.
MaxQuestions == 2
\* Most image references in the texts (question, answers, hints) of one item.
MaxRefs == 2

\* The EXERCISE_IMAGE files an item may have, ordered by checksum.
ExerciseImages ==
    <<[checksum |-> "aa", file_format_id |-> "png"],
      [checksum |-> "g1", file_format_id |-> "svg"]>>

\* The EXERCISE_GRAPHIE files an item may have, ordered by checksum.
ExerciseGraphies == <<[checksum |-> "c3", original_filename |-> "g1"]>>

\* The file names the texts of an item may refer to as
\* ![](${CONTENTSTORAGE}/images/<name>).
TextImages == <<[checksum |-> "aa", ext |-> ".png"]>>

RECURSIVE RefSeqs(_)
\* The sequences of at most k references.
RefSeqs(k) ==
    IF k = 0 THEN {<< >>}
    ELSE RefSeqs(k - 1) \cup
         {Append(r, i) : r \in RefSeqs(k - 1), i \in 1..Len(TextImages)}

\* An assessment item: its attached files and the references of its texts.
Questions ==
    [images : SUBSET (1..Len(ExerciseImages)),
     graphies : SUBSET (1..Len(ExerciseGraphies)),
     refs : RefSeqs(MaxRefs)]

RECURSIVE QuestionSeqs(_)
QuestionSeqs(k) ==
    IF k = 0 THEN {<< >>}
    ELSE QuestionSeqs(k - 1) \cup
         {Append(qs, q) : qs \in {x \in QuestionSeqs(k - 1) : Len(x) = k - 1},
                          q \in Questions}

Range(f) == {f[i] : i \in 1..Len(f)}

\* Most bytes of the JSON part of a graphie file.
MaxJson == 2

\* exercises.GRAPHIE_DELIMITER, taken as one unit of a file's content.
GRAPHIE_DELIMITER == "DELIMITER"

RECURSIVE ByteSeqs(_, _)
\* The contents of at most k units over an alphabet.
ByteSeqs(alphabet, k) ==
    IF k = 0 THEN {<< >>}
    ELSE ByteSeqs(alphabet, k - 1) \cup
         {Append(c, b) : c \in ByteSeqs(alphabet, k - 1), b \in alphabet}

\* The contents of a graphie file: an SVG stream, the delimiter, a JSON
\* stream of any bytes.
GraphieContents ==
    {<<"svg">> \o <<GRAPHIE_DELIMITER>> \o json :
        json \in ByteSeqs({"json", GRAPHIE_DELIMITER}, MaxJson)}

\* The files on disk by checksum: the graphie file holds content, any other
\* file its own bytes.
Disk(content) ==
    [c \in {"aa", "g1", "c3"} |-> IF c = "c3" THEN content ELSE <<c>>]

\* The first position of sep in content, 0 when there is none.
Find(content, sep) ==
    IF \E i \in 1..Len(content) : content[i] = sep
    THEN CHOOSE i \in 1..Len(content) :
            /\ content[i] = sep
            /\ \A j \in 1..(i - 1) : content[j] # sep
    ELSE 0

RECURSIVE split(_, _)
\* content.split(sep): the pieces between all occurrences of sep.
split(content, sep) ==
    LET i == Find(content, sep) IN
    IF i = 0 THEN <<content>>
    ELSE <<SubSeq(content, 1, i - 1)>>
         \o split(SubSeq(content, i + 1, Len(content)), sep)

\* zf.namelist()
namelist(zf) == [i \in 1..Len(zf) |-> zf[i].filename]

\* write_to_zipfile: zf.writestr adds an entry, whatever the archive holds.
write_to_zipfile(filename, content, zf) ==
    Append(zf, [filename |-> filename, content |-> content])

\* "images/{}.{}".format(checksum, file_format_id)
image_name(checksum, ext) == "images/" \o checksum \o "." \o ext

RECURSIVE WriteImages(_, _, _, _)
\* Lines 319-323, from the i-th file on.
WriteImages(zf, images, i, disk) ==
    IF i > Len(ExerciseImages) THEN zf
    ELSE LET name == image_name(ExerciseImages[i].checksum,
                                ExerciseImages[i].file_format_id)
         IN WriteImages(IF i \in images /\ name \notin Range(namelist(zf))
                        THEN write_to_zipfile(name, disk[ExerciseImages[i].checksum], zf)
                        ELSE zf,
                        images, i + 1, disk)

RECURSIVE WriteGraphies(_, _, _, _)
\* Lines 325-333, from the i-th file on: both entries are written when
\* either name is missing, from the first two pieces of the content.
WriteGraphies(zf, graphies, i, disk) ==
    IF i > Len(ExerciseGraphies) THEN zf
    ELSE LET svg_name == "images/" \o ExerciseGraphies[i].original_filename \o ".svg"
             json_name == "images/" \o ExerciseGraphies[i].original_filename \o "-data.json"
             content == split(disk[ExerciseGraphies[i].checksum], GRAPHIE_DELIMITER)
         IN WriteGraphies(IF i \in graphies /\ (svg_name \notin Range(namelist(zf))
                                                 \/ json_name \notin Range(namelist(zf)))
                          THEN write_to_zipfile(json_name, content[2],
                                   write_to_zipfile(svg_name, content[1], zf))
                          ELSE zf,
                          graphies, i + 1, disk)

RECURSIVE process_image_strings(_, _, _, _)
\* process_image_strings on the texts of an item, from the i-th reference
\* on: os.path.splitext keeps the dot in ext, ext[1:] drops it.
process_image_strings(zf, refs, i, disk) ==
    IF i > Len(refs) THEN zf
    ELSE LET ref == TextImages[refs[i]]
             name == image_name(ref.checksum, SubSeq(ref.ext, 2, Len(ref.ext)))
         IN process_image_strings(IF name \notin Range(namelist(zf))
                                  THEN write_to_zipfile(name, disk[ref.checksum], zf)
                                  ELSE zf,
                                  refs, i + 1, disk)

\* "{0}.json".format(assessment_item.assessment_id): the i-th item has the
\* assessment_id "item<i>".
item_name(i) == "item" \o ToString(i) \o ".json"

\* An exercise with up to MaxQuestions items of recognized types.
ZipInit ==
    /\ MainIdle
    /\ race = NoRace
    /\ mastery = NoMastery
    /\ item = NoItem
    /\ \E qs \in QuestionSeqs(MaxQuestions), content \in GraphieContents :
          archive = [pc |-> "exercise.json", questions |-> qs, q |-> 1,
                     disk |-> Disk(content), zf |-> << >>]

\* Line 316: exercise.json is written first.
zip_exercise_json ==
    /\ archive.pc = "exercise.json"
    /\ archive' = [archive EXCEPT
          !.pc = "files",
          !.zf = write_to_zipfile("exercise.json", <<"exercise_result">>, archive.zf)]
    /\ UNCHANGED <<mainVars, race, mastery, item>>

\* Lines 318-333 for one question: its image files, then its graphie files.
zip_question_files ==
    /\ archive.pc = "files"
    /\ archive.q <= Len(archive.questions)
    /\ LET question == archive.questions[archive.q] IN
       archive' = [archive EXCEPT
          !.q = archive.q + 1,
          !.zf = WriteGraphies(WriteImages(archive.zf, question.images, 1,
                                           archive.disk),
                               question.graphies, 1, archive.disk)]
    /\ UNCHANGED <<mainVars, race, mastery, item>>

\* The first loop over the items ends.
zip_files_done ==
    /\ archive.pc = "files"
    /\ archive.q > Len(archive.questions)
    /\ archive' = [archive EXCEPT !.pc = "items", !.q = 1]
    /\ UNCHANGED <<mainVars, race, mastery, item>>

\* write_assessment_item for one item: the images its texts refer to, then
\* <assessment_id>.json.
write_assessment_item ==
    /\ archive.pc = "items"
    /\ archive.q <= Len(archive.questions)
    /\ LET assessment_item == archive.questions[archive.q] IN
       archive' = [archive EXCEPT
          !.q = archive.q + 1,
          !.zf = write_to_zipfile(
                     item_name(archive.q), <<"result">>,
                     process_image_strings(archive.zf, assessment_item.refs, 1,
                                           archive.disk))]
    /\ UNCHANGED <<mainVars, race, mastery, item>>

\* zf.close()
zip_close ==
    /\ archive.pc = "items"
    /\ archive.q > Len(archive.questions)
    /\ archive' = [archive EXCEPT !.pc = "closed"]
    /\ UNCHANGED <<mainVars, race, mastery, item>>

ZipNext ==
    \/ zip_exercise_json
    \/ zip_question_files
    \/ zip_files_done
    \/ write_assessment_item
    \/ zip_close

ZipSpec == ZipInit /\ [][ZipNext]_vars

\* ------------------------------------- write_assessment_item: the answers
\* Most answers of the assessment item that is rendered.
MaxAnswers == 2

\* The values json.loads gives the 'answer' key: a text or an integer.
\* An integer is written by its digits.
AnswerValues ==
    {[type |-> "unicode", value |-> ""],
     [type |-> "unicode", value |-> "x"],
     [type |-> "unicode", value |-> "$$x$$"],
     [type |-> "int", value |-> "0"],
     [type |-> "int", value |-> "7"]}

RECURSIVE AnswerSeqs(_)
\* The answer lists of at most k answers; id tells the dicts apart, order is
\* the answer's 'order' key.
AnswerSeqs(k) ==
    IF k = 0 THEN {<< >>}
    ELSE AnswerSeqs(k - 1) \cup
         {Append(as, [id |-> k, answer |-> v, order |-> o]) :
             as \in {x \in AnswerSeqs(k - 1) : Len(x) = k - 1},
             v \in AnswerValues, o \in 1..MaxAnswers}

\* The item types whose answers are processed by lines 370-374.
ItemTypes == {"multiple_selection", "single_selection", "true_false", "perseus_question"}

\* process_formulas on the texts at hand: $$x$$ becomes $x$.
process_formulas(content) == IF content = "$$x$$" THEN "$x$" ELSE content

\* Lines 370-374 on one answer: the methods of a text applied to its value.
\* An integer has no method replace.
ProcessAnswer(answer) ==
    [answer EXCEPT !.answer.value = process_formulas(answer.answer.value)]

\* bool(a['answer']) in Python.
Truthy(v) ==
    \/ v.type = "unicode" /\ v.value # ""
    \/ v.type = "int" /\ v.value # "0"

\* Line 376: the lambda of the filter.
KeepsAnswer(a) ==
    Truthy(a.answer) \/ (a.answer.type = "int" /\ a.answer.value = "0")

RECURSIVE FilterAnswers(_)
FilterAnswers(answer_data) ==
    IF answer_data = << >> THEN << >>
    ELSE (IF KeepsAnswer(Head(answer_data)) THEN <<Head(answer_data)>> ELSE << >>)
         \o FilterAnswers(Tail(answer_data))

RECURSIVE InsertAnswer(_, _)
\* a put behind the answers of sorted_data that are not greater by order.
InsertAnswer(sorted_data, a) ==
    IF sorted_data = << >> THEN <<a>>
    ELSE IF Head(sorted_data).order <= a.order
         THEN <<Head(sorted_data)>> \o InsertAnswer(Tail(sorted_data), a)
         ELSE <<a>> \o sorted_data

RECURSIVE sorted(_)
\* sorted(answer_data, cmp on 'order'): a stable sort.
sorted(answer_data) ==
    IF answer_data = << >> THEN << >>
    ELSE InsertAnswer(sorted(SubSeq(answer_data, 1, Len(answer_data) - 1)),
                      answer_data[Len(answer_data)])

\* An item of a recognized type, not an input question, with its answers.
AnswerInit ==
    /\ MainIdle
    /\ race = NoRace
    /\ mastery = NoMastery
    /\ archive = NoArchive
    /\ \E t \in ItemTypes, as \in AnswerSeqs(MaxAnswers) :
          item = [pc |-> "write_assessment_item", type |-> t, answer_data |-> as]

\* Lines 365-387: the loop over the answers raises at an integer value,
\* otherwise the answers are filtered and sorted into the context.
write_assessment_item_answers ==
    /\ item.pc = "write_assessment_item"
    /\ IF \E i \in 1..Len(item.answer_data) : item.answer_data[i].answer.type = "int"
       THEN item' = [item EXCEPT !.pc = "AttributeError"]
       ELSE item' = [pc |-> "rendered", type |-> item.type,
                     answer_data |-> item.answer_data,
                     answers |-> sorted(FilterAnswers(
                         [i \in 1..Len(item.answer_data) |->
                             ProcessAnswer(item.answer_data[i])]))]
    /\ UNCHANGED <<mainVars, race, mastery, archive>>

AnswerNext == write_assessment_item_answers

AnswerSpec == AnswerInit /\ [][AnswerNext]_vars

\* ------------------------- add_tokens_to_channel of two channels at once
\* The ids of two channels whose exports run at the same time, each in its
\* own process; neither is a proquint.
Channels == {ChannelId, ChannelId - 1}

\* SecretToken tables the two exports may find: empty, or one token of a
\* third channel.
RaceTables == {<< >>, <<[token |-> 1, is_primary |-> TRUE]>>}

\* Both processes are about to call add_tokens_to_channel.
RaceInit ==
    /\ MainIdle
    /\ mastery = NoMastery
    /\ archive = NoArchive
    /\ item = NoItem
    /\ \E tb \in RaceTables :
          race = [table |-> tb,
                  linked |-> [c \in Channels |-> {}],
                  pc |-> [c \in Channels |-> "add_tokens_to_channel"],
                  token |-> [c \in Channels |-> 0]]

\* Line 554 and line 556 in the process of channel c: the primary-token
\* query, then the first proquint.generate().
race_check(c) ==
    /\ race.pc[c] = "add_tokens_to_channel"
    /\ IF ~HasPrimaryToken(race.table, race.linked[c])
       THEN \E t \in Proquints :
               race' = [race EXCEPT !.pc[c] = "add_tokens_while", !.token[c] = t]
       ELSE race' = [race EXCEPT !.pc[c] = "returned"]
    /\ UNCHANGED <<mainVars, mastery, archive, item>>

\* Line 561 in the process of channel c: one evaluation of the while
\* condition, a query of its own; a collision regenerates the candidate
\* (index stays 0, so line 563 never raises here).
race_while(c) ==
    /\ race.pc[c] = "add_tokens_while"
    /\ IF Collides(race.table, race.token[c])
       THEN \E t \in Proquints : race' = [race EXCEPT !.token[c] = t]
       ELSE race' = [race EXCEPT !.pc[c] = "SecretToken_create"]
    /\ UNCHANGED <<mainVars, mastery, archive, item>>

\* Lines 566-568 in the process of channel c: both tokens are created and
\* linked to the channel.
race_create(c) ==
    /\ race.pc[c] = "SecretToken_create"
    /\ race' = [race EXCEPT
          !.table = race.table \o <<[token |-> race.token[c], is_primary |-> TRUE],
                                    [token |-> c, is_primary |-> FALSE]>>,
          !.linked[c] = race.linked[c] \cup {Len(race.table) + 1, Len(race.table) + 2},
          !.pc[c] = "returned"]
    /\ UNCHANGED <<mainVars, mastery, archive, item>>

\* A process calls add_tokens_to_channel again in a later export.
race_again(c) ==
    /\ race.pc[c] = "returned"
    /\ race' = [race EXCEPT !.pc[c] = "add_tokens_to_channel"]
    /\ UNCHANGED <<mainVars, mastery, archive, item>>

RaceNext ==
    \E c \in Channels :
        \/ race_check(c)
        \/ race_while(c)
        \/ race_create(c)
        \/ race_again(c)

\* Every interleaving of the steps of the two processes.
RaceSpec == RaceInit /\ [][RaceNext]_vars

\* ---------------------------------------------------- fill_published_fields
\* Mutant of published_nodes: get_descendants(include_self=True).
published_nodes_with_root == {n \in get_descendants(Root, TRUE) : published[n]}

\* channel.main_tree.get_descendants().filter(published=True)
published_nodes == {n \in get_descendants(Root, FALSE) : published[n]}

\* values('kind_id').annotate(count=Count('kind_id')): one row per kind present.
KindCount(nodes) ==
    {[kind_id |-> k, count |-> Cardinality({n \in nodes : kind[n] = k})] :
        k \in {kind[n] : n \in nodes}}

\* set(chain(node_languages, file_languages)): the files of the model have
\* no language, so file_languages adds None only.
language_list(nodes) ==
    {language[n] : n \in {m \in nodes : language[m] # None}} \cup {None}

RECURSIVE Sum(_)
\* Sum('files__file_size') over rows, with the `or 0` of line 574 for the
\* None of no row.
Sum(rows) ==
    IF rows = {} THEN 0
    ELSE LET r == CHOOSE x \in rows : TRUE
         IN r.files__file_size + Sum(rows \ {r})

\* Mutant of published_size: distinct() is missing and every file of every
\* node is a row of its own.
published_size_without_distinct(nodes) ==
    Sum(UNION {{[node |-> n, file |-> i,
                 files__checksum |-> NodeFiles(n, bundle[n])[i].checksum,
                 files__file_size |-> NodeFiles(n, bundle[n])[i].file_size] :
                    i \in 1..Len(NodeFiles(n, bundle[n]))} : n \in nodes})

\* Line 574: values('files__checksum', 'files__file_size').distinct()
\* .aggregate(Sum('files__file_size')) or 0. A node without files gives a
\* row of NULLs, which Sum skips.
published_size(nodes) ==
    Sum(UNION {{[files__checksum |-> NodeFiles(n, bundle[n])[i].checksum,
                 files__file_size |-> NodeFiles(n, bundle[n])[i].file_size] :
                    i \in 1..Len(NodeFiles(n, bundle[n]))} : n \in nodes})

\* The second half adds every true language of language_list to
\* channel.included_languages; nothing is removed from it.
fill_published_fields ==
    /\ pc = "fill_published_fields"
    /\ channel' = [channel EXCEPT
          !.total_resource_count =
              Cardinality({n \in published_nodes : kind[n] # TOPIC}),
          !.published_kind_count = KindCount(published_nodes),
          !.published_size = published_size(published_nodes),
          !.included_languages =
              channel.included_languages \cup
                  {lang \in language_list(published_nodes) : lang # None}]
    /\ Returns("fill_published_fields")
    /\ UNCHANGED <<unitVars, treeVars, changed, published, bundle, tokenTable, chanTokens,
                   artifact, tempdb, targetVars, node_queue, tokenLocals,
                   outcome, failure, clock, pre>>

\* record_publish_stats returns and Command.handle ends normally.
record_publish_stats ==
    /\ pc = "record_publish_stats"
    /\ Returns("record_publish_stats")
    /\ outcome' = "Published"
    /\ UNCHANGED <<unitVars, treeVars, changed, published, bundle, channel, tokenTable,
                   chanTokens, artifact, tempdb, targetVars, node_queue,
                   tokenLocals, failure, clock, pre>>

\* ------------------------------------------------------------ environment
\* The step at pc raises before writing anything (database or file system
\* error). Nothing in Command.handle undoes the writes of the earlier steps;
\* only the atomic block of map_content_nodes rolls its own writes back.
step_raises ==
    /\ pc # "idle"
    /\ Raise(pc, "EnvironmentError")
    /\ bundle' = IF pc = "map_content_nodes_loop" THEN pre.store.bundle ELSE bundle
    /\ UNCHANGED <<unitVars, treeVars, changed, published, channel, tokenTable, chanTokens,
                   artifact, tempdb, targetVars, node_queue, tokenLocals, clock, pre>>

\* The editing surface marks a node changed between two invocations (one
\* node per publish cycle). The record of the last invocation (outcome,
\* failure, pre) no longer describes the store and is cleared.
edit_node(n) ==
    /\ pc = "idle"
    /\ \A m \in Nodes : ~changed[m]
    /\ changed' = [changed EXCEPT ![n] = TRUE]
    /\ outcome' = "none"
    /\ failure' = << >>
    /\ UNCHANGED <<unitVars, treeVars, published, bundle, channel, tokenTable, chanTokens,
                   artifact, tempdb, targetVars, node_queue, tokenLocals, pc,
                   clock, done>>
    /\ pre' = [force |-> FALSE, force_exercises |-> FALSE, store |-> Store']

\* The editing surface changes the type of an assessment item of exercise n
\* to one the exporter does not know, after an invocation and before any
\* other edit. The node's changed flag is not touched.
edit_assessment_item(n) ==
    /\ pc = "idle"
    /\ outcome # "none"
    /\ kind[n] = EXERCISE
    /\ badItems = {}
    /\ badItems' = {n}
    /\ outcome' = "none"
    /\ failure' = << >>
    /\ UNCHANGED <<unitVars, files, parent, kind, language, thumbs, prereqs, changed, published, bundle,
                   channel, tokenTable, chanTokens, artifact, tempdb, targetVars,
                   node_queue, tokenLocals, pc, clock, done>>
    /\ pre' = [force |-> FALSE, force_exercises |-> FALSE, store |-> Store']

\* The editing surface sets the language of node n to l, once per publish
\* cycle, and marks the node changed.
edit_language(n, l) ==
    /\ pc = "idle"
    /\ \A m \in Nodes : ~changed[m]
    /\ l # language[n]
    /\ language' = [language EXCEPT ![n] = l]
    /\ changed' = [changed EXCEPT ![n] = TRUE]
    /\ outcome' = "none"
    /\ failure' = << >>
    /\ UNCHANGED <<unitVars, files, parent, kind, badItems, thumbs, prereqs, published, bundle, channel,
                   tokenTable, chanTokens, artifact, tempdb, targetVars,
                   node_queue, tokenLocals, pc, clock, done>>
    /\ pre' = [force |-> FALSE, force_exercises |-> FALSE, store |-> Store']

\* The steps of a running invocation.
Run ==
    \/ prepare_export_database
    \/ map_channel_save_icon
    \/ map_channel_create
    \/ map_content_nodes_begin
    \/ map_content_nodes_visit
    \/ map_content_nodes_end
    \/ map_prerequisites
    \/ save_export_database
    \/ increment_channel_version
    \/ mark_all_nodes_as_changed
    \/ add_tokens_check
    \/ add_tokens_retry
    \/ add_tokens_create
    \/ fill_published_fields
    \/ record_publish_stats

Next ==
    \/ \E force \in BOOLEAN, force_exercises \in BOOLEAN :
          handle_begin(force, force_exercises)
    \/ Run
    \/ step_raises
    \/ \E n \in Nodes : edit_node(n)

Spec == Init /\ [][Next]_vars

\* The command together with the edits of assessment items.
ItemNext ==
    \/ Next
    \/ \E n \in Nodes : edit_assessment_item(n)

ItemSpec == ItemInit /\ [][ItemNext]_vars

\* The command together with the edits of single fields of a node.
EditNext ==
    \/ ItemNext
    \/ \E n \in Nodes, l \in Languages \cup {None} : edit_language(n, l)

EditSpec == EditInit /\ [][EditNext]_vars

\* An invocation that can take a step eventually takes one: the command is a
\* sequential program that keeps running until it returns or raises.
FairSpec == Spec /\ WF_vars(Run)

\* The exports of a channel whose nodes have uploaded files.
FileSpec == FileInit /\ [][Next]_vars

\* ------------------------------------------------------------ properties
\* The part of the store that belongs to the editorial database.
Editorial(st) ==
    [channel |-> st.channel, changed |-> st.changed, published |-> st.published,
     bundle |-> st.bundle, tokenTable |-> st.tokenTable,
     chanTokens |-> st.chanTokens]

\* An invocation has begun and its record has not been cleared by an edit.
Invoked == outcome # "none"

\* C1: an export invoked without force on a tree in which no node is changed
\* ends with EarlyExit, and channel (version, last_published, aggregates),
\* node flags, tokens, exercise files and the stored artifact are as before
\* the call, and no temporary database was created.
C1_EarlyExitMutatesNothing ==
    (Invoked /\ ~pre.force /\ \A n \in Nodes : ~pre.store.changed[n]) =>
        /\ pc = "idle"
        /\ outcome = "EarlyExit"
        /\ Store = pre.store
        /\ ~tempdb

\* C1 witness: an early exit on a channel that was published before.
C1_Witness ==
    /\ outcome = "EarlyExit"
    /\ ~pre.force
    /\ channel.version > 0
    /\ artifact # << >>

\* C2: after a fatal failure at any step the editorial store equals its state
\* before the export (version, flags, tokens, every other channel field).
C2_FailureLeavesEditorialStore ==
    outcome = "Failed" => Editorial(Store) = Editorial(pre.store)

\* C3: the version never decreases, grows by exactly 1 in an invocation that
\* completes, and is unchanged by one that exits early or fails.
C3_VersionByOutcome ==
    Invoked =>
        /\ channel.version >= pre.store.channel.version
        /\ outcome = "Published" => channel.version = pre.store.channel.version + 1
        /\ outcome \in {"EarlyExit", "Failed"} =>
               channel.version = pre.store.channel.version

\* C4: the stored artifact is replaced only by an invocation in which
\* map_content_nodes and map_prerequisites have both returned; an invocation
\* whose transform failed leaves the artifact that was stored before it.
C4_ArtifactOnlyAfterTransform ==
    Invoked =>
        /\ artifact # pre.store.artifact =>
               {"map_content_nodes", "map_prerequisites"} \subseteq done
        /\ (outcome = "Failed" /\ ~({"map_content_nodes", "map_prerequisites"} \subseteq done)) =>
               artifact = pre.store.artifact

\* C4 witness: the transform of a second export fails at a node after the
\* first export stored an artifact.
C4_Witness ==
    /\ outcome = "Failed"
    /\ failure[1] \in {"map_content_nodes", "map_content_nodes_loop"}
    /\ tNodes # << >>
    /\ artifact # << >>
    /\ artifact = pre.store.artifact

\* A node is non-empty when it is not a topic or some non-topic node has it
\* on its chain of parents.
NonEmpty(n) ==
    \/ kind[n] # TOPIC
    \/ \E d \in Nodes : kind[d] # TOPIC /\ n \in Ancestors(d)

\* C5: when map_content_nodes has returned, the target nodes are exactly the
\* non-empty source nodes, one row each; no empty topic has a row and every
\* row of a topic has available=true.
C5_TargetNodesAreNonEmptyNodes ==
    "map_content_nodes" \in done =>
        /\ TargetIds(tNodes) = {n \in Nodes : NonEmpty(n)}
        /\ Len(tNodes) = Cardinality({n \in Nodes : NonEmpty(n)})
        /\ \A i \in 1..Len(tNodes) :
               /\ tNodes[i].kind = kind[tNodes[i].id]
               /\ tNodes[i].kind = TOPIC => tNodes[i].available

\* C5 witness: a walk that pruned an empty topic and exported a topic with a
\* leaf below it.
C5_Witness ==
    /\ "map_content_nodes" \in done
    /\ \E n \in Nodes : kind[n] = TOPIC /\ n \notin TargetIds(tNodes)
    /\ \E i \in 1..Len(tNodes) : tNodes[i].kind = TOPIC /\ tNodes[i].available
    /\ \E i \in 1..Len(tNodes) : tNodes[i].kind # TOPIC

\* C6: every target row of a node with a parent was created after the row of
\* that parent, and the parent lookup of create_bare_contentnode never fails.
C6_ParentCreatedFirst ==
    /\ \A i \in 1..Len(tNodes) :
           parent[tNodes[i].id] # NoNode =>
               /\ tNodes[i].parent = parent[tNodes[i].id]
               /\ \E j \in 1..(i - 1) : tNodes[j].id = parent[tNodes[i].id]
    /\ failure # <<"map_content_nodes", "DoesNotExist">>

\* C6 witness: a row on the third level of the tree has been created.
C6_Witness ==
    \E i \in 1..Len(tNodes) :
        /\ parent[tNodes[i].id] # NoNode
        /\ parent[parent[tNodes[i].id]] # NoNode

\* C7: after a successful export every node of the tree has changed=false
\* and published=true.
C7_AllNodesMarkedPublished ==
    outcome = "Published" => \A n \in Nodes : ~changed[n] /\ published[n]

\* C7 witness: a successful export of a tree with a pruned empty topic.
C7_Witness ==
    /\ outcome = "Published"
    /\ \E n \in Nodes : ~NonEmpty(n) /\ pre.store.changed[n] /\ ~pre.store.published[n]

\* The tokens of the channel, as the rows of the token table it is linked to.
ChannelTokenRows == {i \in chanTokens : i \in 1..Len(tokenTable)}

\* C8: after every successful export the channel has exactly one primary token
\* and exactly one token equal to the channel id, and an export of a channel
\* that has a primary token creates no token.
C8_TokensIdempotent ==
    /\ outcome = "Published" =>
           /\ Cardinality({i \in ChannelTokenRows : tokenTable[i].is_primary}) = 1
           /\ Cardinality({i \in ChannelTokenRows : tokenTable[i].token = ChannelId}) = 1
    /\ (Invoked /\ \E i \in pre.store.chanTokens : pre.store.tokenTable[i].is_primary) =>
           /\ tokenTable = pre.store.tokenTable
           /\ chanTokens = pre.store.chanTokens

\* C8 witness: a second successful export, of a channel that had its tokens.
C8_Witness ==
    /\ outcome = "Published"
    /\ clock = 2
    /\ pre.store.chanTokens # {}
    /\ "add_tokens_to_channel" \in done

\* The rows add_tokens_to_channel added in this invocation.
NewTokens == SubSeq(tokenTable, Len(pre.store.tokenTable) + 1, Len(tokenTable))

\* C9: when tokens are generated for a channel without primary token, the
\* primary token created equals no token that existed before, and exactly two
\* rows are new, one of them the channel id.
C9_FreshPrimaryToken ==
    (Invoked /\ tokenTable # pre.store.tokenTable) =>
        /\ SubSeq(tokenTable, 1, Len(pre.store.tokenTable)) = pre.store.tokenTable
        /\ Len(NewTokens) = 2
        /\ \E i \in 1..2 :
               /\ NewTokens[i].is_primary
               /\ ~NewTokens[3 - i].is_primary
               /\ NewTokens[3 - i].token = ChannelId
               /\ NewTokens[i].token # ChannelId
               /\ \A j \in 1..Len(pre.store.tokenTable) :
                      pre.store.tokenTable[j].token # NewTokens[i].token

\* C9 witness: the two tokens were created in a table that already held the
\* tokens of other channels.
C9_Witness ==
    /\ Invoked
    /\ Len(tokenTable) = Len(pre.store.tokenTable) + 2
    /\ pre.store.tokenTable # << >>

\* C10: the while loop of add_tokens_to_channel is always left, by creating
\* the tokens or by raising once the retry bound is exceeded.
C10_TokenLoopIsLeft ==
    (pc = "add_tokens_while") ~> (pc # "add_tokens_while")

\* C11 (as claimed): whenever the transform has visited an exercise holding
\* an item of unrecognized type, the invocation has failed, the artifact and
\* the version are those from before it and the node's bundle file is the
\* one from before it, whatever the changed flag and the existing bundle.
C11_BadItemAlwaysAborts ==
    \A n \in badItems :
        (Invoked /\ n \in TargetIds(tNodes)) =>
            /\ outcome = "Failed"
            /\ artifact = pre.store.artifact
            /\ channel.version = pre.store.channel.version
            /\ bundle[n] = pre.store.bundle[n]

\* C11 (amended): the visit of such an exercise never creates or replaces
\* its bundle file; when force_exercises is set, the node is changed or it
\* has no bundle file, the invocation has failed with artifact and version
\* as before; otherwise the item is not read and raises nothing.
C11_BadItemAbortsRebuild ==
    \A n \in badItems :
        (Invoked /\ n \in TargetIds(tNodes)) =>
            /\ bundle[n] = pre.store.bundle[n]
            /\ IF pre.force_exercises \/ pre.store.changed[n] \/ pre.store.bundle[n] = 0
               THEN /\ outcome = "Failed"
                    /\ artifact = pre.store.artifact
                    /\ channel.version = pre.store.channel.version
               ELSE failure # <<"map_content_nodes", "TypeError">>

\* C11 witness: an export fails on an exercise that already had a bundle
\* file and whose item type became unrecognized afterwards.
C11_Witness ==
    /\ failure = <<"map_content_nodes", "TypeError">>
    /\ \E n \in badItems : n \in TargetIds(tNodes) /\ bundle[n] # 0

\* C12: in every stored artifact both ends of each prerequisite link are
\* target nodes of that artifact, and map_prerequisites returns only when
\* the prerequisite and the target node of every relationship have a target
\* row (otherwise the export has aborted before the artifact is written).
C12_PrerequisiteLinksResolve ==
    /\ artifact # << >> =>
           \A r \in artifact[1].prereqs :
               {r[1], r[2]} \subseteq TargetIds(artifact[1].nodes)
    /\ (Invoked /\ "map_prerequisites" \in done) =>
           \A r \in prereqs : {r[1], r[2]} \subseteq TargetIds(tNodes)

\* The nodes below the channel root.
BelowRoot == Nodes \ {Root}

\* The histogram with one row for each kind in `kinds` that occurs below the
\* root, counting the nodes of that kind.
Histogram(kinds) ==
    {[kind_id |-> k, count |-> Cardinality({n \in BelowRoot : kind[n] = k})] :
        k \in {j \in kinds : \E n \in BelowRoot : kind[n] = j}}

\* C13 (as claimed): after a completed export total_resource_count is the
\* number of non-topic nodes below the root and the kind histogram has one
\* row per leaf kind present, with its count, and no row for topics.
C13_AggregatesExcludeTopics ==
    outcome = "Published" =>
        /\ channel.total_resource_count =
               Cardinality({n \in BelowRoot : kind[n] # TOPIC})
        /\ channel.published_kind_count = Histogram(Kinds \ {TOPIC})

\* C13 (amended): the count is as claimed; the histogram has one row per
\* kind present below the root, the topic kind included.
C13_AggregatesByKind ==
    outcome = "Published" =>
        /\ channel.total_resource_count =
               Cardinality({n \in BelowRoot : kind[n] # TOPIC})
        /\ channel.published_kind_count = Histogram(Kinds)

\* C13 witness: the root topic holds one exercise and one resource.
C13_Witness ==
    /\ outcome = "Published"
    /\ channel.total_resource_count = 2
    /\ channel.published_kind_count =
           {[kind_id |-> EXERCISE, count |-> 1], [kind_id |-> VIDEO, count |-> 1]}

\* C14: after every completed export, in any sequence of edits and exports,
\* channel.included_languages is exactly the set of languages of the
\* published nodes below the root (the files of the model have none).
C14_LanguagesRecomputed ==
    outcome = "Published" =>
        channel.included_languages =
            {language[n] : n \in {m \in BelowRoot : published[m]}} \ {None}

\* C15: when an export with force (and without force_exercises) completes
\* on a tree that no edit touched since the previous export stored its
\* artifact, the target node rows and the target file rows of the two
\* artifacts are the same: same ids, same field values.
C15_ForcedExportIdempotent ==
    (/\ outcome = "Published"
     /\ pre.force /\ ~pre.force_exercises
     /\ \A n \in Nodes : ~pre.store.changed[n]
     /\ pre.store.artifact # << >>
     /\ pre.store.artifact[1].written = clock - 1) =>
        /\ artifact[1].nodes = pre.store.artifact[1].nodes
        /\ artifact[1].files = pre.store.artifact[1].files

\* C16: when the exports of two channels run add_tokens_to_channel at the
\* same time, in every interleaving of their queries and creates, no two
\* rows of the SecretToken table hold the same token (so the two channels
\* never have the same primary token).
C16_TokensUniqueAcrossChannels ==
    \A i, j \in 1..Len(race.table) :
        i # j => race.table[i].token # race.table[j].token

\* The result of a returned call of process_assessment_metadata.
Returned == mastery.pc = "returned"
AtLeast1(x) == IF x < 1 THEN 1 ELSE x
AtMost5(x) == IF x > 5 THEN 5 ELSE x

\* C17: without n and m in extra_fields, an M-of-N exercise (named or by
\* default) with item_count items gets n = m = max(1, min(5, item_count)),
\* a do-all exercise gets n = m = max(1, item_count); neither is ever 0.
C17_MasteryDefaults ==
    (Returned /\ mastery.extra_fields.n = {} /\ mastery.extra_fields.m = {}) =>
        LET type == mastery.extra_fields.mastery_model
            out == mastery.exercise_data
        IN /\ type \in {None, M_OF_N} =>
                  /\ out.n = {AtLeast1(AtMost5(mastery.count))}
                  /\ out.m = out.n
           /\ type = DO_ALL =>
                  /\ out.n = {AtLeast1(mastery.count)}
                  /\ out.m = out.n
           /\ type \in {None, M_OF_N, DO_ALL} => 0 \notin out.n \cup out.m

\* C17 witness: an M-of-N exercise without items came out with n = m = 1
\* (and the same holds at 12 items with 5, at 7 do-all items with 7).
C17_Witness ==
    /\ Returned
    /\ mastery.count = 0
    /\ mastery.extra_fields.mastery_model = M_OF_N
    /\ mastery.extra_fields.n = {}
    /\ mastery.extra_fields.m = {}
    /\ mastery.exercise_data.n = {1}
    /\ mastery.exercise_data.m = {1}

\* The N of the N-correct-in-a-row types.
InARow ==
    {<<NUM_CORRECT_IN_A_ROW_2, 2>>, <<NUM_CORRECT_IN_A_ROW_3, 3>>,
     <<NUM_CORRECT_IN_A_ROW_5, 5>>, <<NUM_CORRECT_IN_A_ROW_10, 10>>}

\* C19: for every exercise and every value of the configured mastery type
\* the emitted exercise data has mastery_model M-of-N, numbers n >= 1 and
\* m >= 1, the configured type (M-of-N when none is configured) as
\* legacy_mastery_model, and n = m = N for N-correct-in-a-row whatever n and
\* m the configuration gives.
C19_NormalizedMasteryAlwaysEmitted ==
    Returned =>
        LET type == mastery.extra_fields.mastery_model
            out == mastery.exercise_data
        IN /\ out.mastery_model = M_OF_N
           /\ \E v \in out.n : v >= 1
           /\ \E v \in out.m : v >= 1
           /\ out.legacy_mastery_model = (IF type = None THEN M_OF_N ELSE type)
           /\ \A r \in InARow : type = r[1] => out.n = {r[2]} /\ out.m = {r[2]}

\* The writes of map_content_nodes in this invocation stand: it is running
\* or completed, or it failed after the atomic block was committed.
Committed ==
    \/ outcome \in {"running", "Published"}
    \/ outcome = "Failed" /\ "map_content_nodes" \in done

\* C18: for an exercise the transform has visited, the bundle file is the
\* one this invocation created (the old one deleted) exactly when
\* force_exercises is set, or the node was marked changed, or it had no
\* bundle file; otherwise it is the file the node had before.
C18_RebuildIffNeeded ==
    \A n \in Nodes :
        (kind[n] = EXERCISE /\ n \in TargetIds(tNodes) /\ Committed) =>
            IF pre.force_exercises \/ pre.store.changed[n] \/ pre.store.bundle[n] = 0
            THEN bundle[n] = clock /\ bundle[n] # pre.store.bundle[n]
            ELSE bundle[n] = pre.store.bundle[n] /\ bundle[n] # clock

\* C18 witness: a forced export has visited an unchanged exercise and left
\* the bundle file of an earlier export in place.
C18_Witness ==
    /\ outcome = "Published"
    /\ pre.force /\ ~pre.force_exercises
    /\ \E n \in Nodes :
          /\ kind[n] = EXERCISE
          /\ n \in TargetIds(tNodes)
          /\ ~pre.store.changed[n]
          /\ bundle[n] # 0
          /\ bundle[n] < clock

\* C20: no entry name occurs twice in the archive of one exercise bundle,
\* whatever image files, graphie files and image references its items have.
C20_ArchiveNamesUnique ==
    archive.pc # "idle" =>
        \A i, j \in 1..Len(archive.zf) :
            i # j => namelist(archive.zf)[i] # namelist(archive.zf)[j]

\* The graphie files attached to the items of the exercise.
AttachedGraphies ==
    {g \in 1..Len(ExerciseGraphies) :
        \E q \in 1..Len(archive.questions) : g \in archive.questions[q].graphies}

\* The entries of the archive with a name.
EntriesNamed(filename) ==
    {i \in 1..Len(archive.zf) : archive.zf[i].filename = filename}

\* C21: a graphie file whose content is an SVG stream, the delimiter and a
\* JSON stream gives the archive the entry images/<name>.svg holding the
\* bytes before the delimiter and the one entry images/<name>-data.json
\* holding all the bytes after it, also when the JSON stream contains the
\* delimiter.
C21_GraphieSplitInTwo ==
    archive.pc = "closed" =>
        \A g \in AttachedGraphies :
            LET content == archive.disk[ExerciseGraphies[g].checksum]
                d == Find(content, GRAPHIE_DELIMITER)
                svg_name == "images/" \o ExerciseGraphies[g].original_filename \o ".svg"
                json_name == "images/" \o ExerciseGraphies[g].original_filename \o "-data.json"
            IN /\ \E i \in EntriesNamed(svg_name) :
                     archive.zf[i].content = SubSeq(content, 1, d - 1)
               /\ Cardinality(EntriesNamed(json_name)) = 1
               /\ \A i \in EntriesNamed(json_name) :
                     archive.zf[i].content = SubSeq(content, d + 1, Len(content))

\* The files attached to node n in the editorial store, by preset, checksum
\* and size.
AttachedFiles(n) ==
    {[preset |-> Uploads[i].preset, checksum |-> Uploads[i].checksum,
      file_size |-> Uploads[i].file_size] : i \in files[n]}
    \cup (IF bundle[n] = 0 THEN {}
          ELSE {[preset |-> "exercise", checksum |-> "zip" \o ToString(n),
                 file_size |-> 4]})
    \cup (IF thumbs[n] = "none" THEN {}
          ELSE {[preset |-> "thumbnail", checksum |-> "png" \o ToString(n),
                 file_size |-> 1]})

\* The distinct <<checksum, file_size>> pairs of the files of published nodes.
PublishedBlobs ==
    {<<f.checksum, f.file_size>> :
        f \in UNION {AttachedFiles(n) : n \in {m \in Nodes : published[m]}}}

RECURSIVE TotalSize(_)
TotalSize(blobs) ==
    IF blobs = {} THEN 0
    ELSE LET b == CHOOSE x \in blobs : TRUE IN b[2] + TotalSize(blobs \ {b})

TargetFilesOf(n) == {i \in 1..Len(tFiles) : tFiles[i].contentnode = n}

\* C24: in the target store of a successful export no File row comes from a
\* file with the preset exercise-image or exercise-graphie, and every other
\* file attached to an exported node has exactly one File row, linked to
\* the target record of that node.
C24_ExerciseOnlyPresetsExcluded ==
    outcome = "Published" =>
        /\ \A i \in 1..Len(tFiles) :
              /\ tFiles[i].preset \notin {"exercise_image", "exercise_graphie"}
              /\ tFiles[i].contentnode \in TargetIds(tNodes)
        /\ \A n \in TargetIds(tNodes) :
              LET generic == {f \in AttachedFiles(n) :
                                 f.preset \notin {"exercise_image", "exercise_graphie"}}
              IN /\ \A f \in generic :
                       Cardinality({i \in TargetFilesOf(n) :
                           /\ tFiles[i].preset = f.preset
                           /\ tFiles[i].checksum = f.checksum}) = 1
                 /\ Cardinality(TargetFilesOf(n)) = Cardinality(generic)

\* A successful export of a node with a document and a graphie file: the
\* target has the document's File row alone.
C24_Witness ==
    /\ outcome = "Published"
    /\ \E n \in TargetIds(tNodes) :
          /\ files[n] = {2, 4}
          /\ \E i \in TargetFilesOf(n) : tFiles[i].preset = "document"
          /\ Cardinality(TargetFilesOf(n)) = 1

\* C25: an export that begins without force right after a successful export,
\* with no edit in between, ends with EarlyExit.
C25_SecondExportExitsEarly ==
    [][(outcome = "Published" /\ clock' = clock + 1 /\ ~pre'.force)
          => outcome' = "EarlyExit"]_vars

\* The second export of a channel exited early; the first one stored the
\* artifact, marked the nodes and linked the tokens.
C25_Witness ==
    /\ outcome = "EarlyExit"
    /\ ~pre.force
    /\ clock = 2
    /\ pre.store.artifact # << >>
    /\ pre.store.chanTokens # {}
    /\ \A n \in Nodes : pre.store.published[n] /\ ~pre.store.changed[n]
    /\ pre.store.channel.version = 1
    /\ pre.store.channel.total_resource_count > 0

\* C26: an invocation that has replaced the stored artifact and has ended
\* has also incremented the version, marked every node published and
\* completed; one that failed or exited early left the artifact alone.
C26_ArtifactAndVersionTogether ==
    (Invoked /\ pc = "idle" /\ artifact # pre.store.artifact) =>
        /\ outcome = "Published"
        /\ channel.version = pre.store.channel.version + 1
        /\ \A n \in Nodes : published[n] /\ ~changed[n]

\* C27: the version written into the target channel record is the editorial
\* version as it was before the increment of the invocation, and after a
\* successful export the editorial version is the version stored in the
\* artifact plus 1.
C27_ArtifactVersionOneBehind ==
    /\ (Invoked /\ tChannel # << >>) =>
           tChannel[1].version = pre.store.channel.version
    /\ outcome = "Published" =>
           /\ artifact[1].channel[1].version = pre.store.channel.version
           /\ channel.version = artifact[1].channel[1].version + 1

\* The second successful export: the artifact says version 1, the channel 2.
C27_Witness ==
    /\ outcome = "Published"
    /\ artifact[1].channel[1].version = 1
    /\ channel.version = 2

ToRetain ==
    {i \in 1..Len(item.answer_data) :
        item.answer_data[i].answer # [type |-> "unicode", value |-> ""]}

====
